---- MODULE Spec2Model ----
(***************************************************************************)
(* Model of the Zipkin span exporter                                       *)
(* (packages/opentelemetry-exporter-zipkin-web/src/zipkin.ts).             *)
(*                                                                         *)
(* The exporter runs on a single-threaded event loop: export() and         *)
(* shutdown() run to completion as one step each, and the settlement of an *)
(* HTTP request issued by axios.post is a later step of its own.           *)
(*                                                                         *)
(* Everything a call does that the outside can observe (logger calls,      *)
(* result-callback invocations, HTTP submissions, how control returns) is  *)
(* recorded, in program order, in the trace of that call.                  *)
(***************************************************************************)
EXTENDS Naturals, Sequences, FiniteSets

\* ---------------------------------------------------------------- bounds
\* Number of export()/shutdown() calls made on the exporter.
MaxCalls == 2
\* Longest span batch handed to export().
MaxLen == 2

\* ------------------------------------------------------------- constants
DEFAULT_URL == "http://localhost:9411/api/v2/spans"
\* Default tag keys exported by ./transform.
statusCodeTagName == "ot.status_code"
statusDescriptionTagName == "ot.status_description"
SUCCESS == "SUCCESS"
FAILURE == "FAILURE"

\* ------------------------------------------------------------ JavaScript
\* An optional property is <<>> when absent and <<v>> when supplied.
Undefined == <<>>
Some(v) == <<v>>

\* a || b for a string-valued optional a: undefined and "" are falsy.
OrString(a, b) == IF a # Undefined /\ a[1] # "" THEN a[1] ELSE b

\* a || b for a boolean-valued optional a: undefined and false are falsy.
OrBoolean(a, b) == IF a # Undefined /\ a[1] THEN a[1] ELSE b

\* ---------------------------------------------------------------- inputs
\* ReadableSpan.  A span whose required identifiers are missing
\* (hasContext = FALSE) is the malformed span of the error taxonomy.
Spans ==
  { [spanId |-> "s1", hasContext |-> TRUE,  code |-> "OK",    description |-> Undefined],
    [spanId |-> "s2", hasContext |-> TRUE,  code |-> "ERROR", description |-> Some("boom")],
    [spanId |-> "s3", hasContext |-> FALSE, code |-> "OK",    description |-> Undefined] }

\* Batches handed to export(): sequences of distinct spans (a span ends
\* once and is handed to the exporter once), of length 0..MaxLen.
Injective(q) == \A i, j \in DOMAIN q : q[i] = q[j] => i = j
Batches ==
  UNION { { q \in [1..n -> Spans] : Injective(q) } : n \in 0..MaxLen }

\* ExporterConfig objects handed to the constructor.  A string option can be
\* left out, supplied empty or supplied with a value; a logger is supplied,
\* so that what the exporter logs is seen.
Configs ==
  [ url                      : {Undefined, Some(""), Some("http://collector:9411/api/v2/spans")},
    serviceName              : {"my-service"},
    forceFlush               : {Undefined, Some(TRUE), Some(FALSE)},
    logger                   : {Some("logger")},
    statusCodeTagName        : {Undefined, Some(""), Some("code")},
    statusDescriptionTagName : {Undefined, Some("desc")} ]

\* How an HTTP request settles: a response with a success status, a network
\* error, or a response with a non-success status (axios rejects on both).
Outcomes == {"ok", "network_error", "non_2xx"}
Failed(outcome) == outcome # "ok"

VARIABLES
  config,    \* the ExporterConfig the exporter was constructed with
  exporter,  \* the private fields of the ZipkinExporter instance
  calls      \* the calls made so far, in call order

vars == <<config, exporter, calls>>

\* ---------------------------------------------------------------- events
Ev(type, result) ==
  [type |-> type, result |-> result, url |-> "", batch |-> <<>>]
DebugEv(sink)      == Ev("debug", sink)
ErrorEv(sink)      == Ev("error", sink)
CallbackEv(result) == Ev("callback", result)
PostEv(url, batch) ==
  [type |-> "post", result |-> "", url |-> url, batch |-> batch]
SettleEv(outcome)  == Ev("settle", outcome)
ReturnEv(promise)  == Ev("return", promise)
ThrowEv            == Ev("throw", "")
RejectEv           == Ev("reject", "")

\* --------------------------------------------------------------- queries
Count(c, type) ==
  Cardinality({ i \in DOMAIN calls[c].trace : calls[c].trace[i].type = type })
Events(c, type) ==
  SelectSeq(calls[c].trace, LAMBDA e : e.type = type)
Pending(c) == Count(c, "post") > Count(c, "settle")
Settled(c) == Count(c, "settle") > 0
SettledWith(c) == Events(c, "settle")[1].result
Returned(c) == Count(c, "return") > 0
Threw(c) == Count(c, "throw") > 0
IsExport(c) == calls[c].op = "export"
IsShutdown(c) == calls[c].op = "shutdown"

\* ----------------------------------------------------------- constructor
Constructor(cfg) ==
  [ _urlStr     |-> OrString(cfg.url, DEFAULT_URL),
    _forceFlush |-> OrBoolean(cfg.forceFlush, TRUE),
    _logger     |-> OrString(cfg.logger, "NoopLogger"),
    _serviceName |-> cfg.serviceName,
    _statusCodeTagName |-> OrString(cfg.statusCodeTagName, statusCodeTagName),
    _statusDescriptionTagName |->
        OrString(cfg.statusDescriptionTagName, statusDescriptionTagName) ]

\* ------------------------------------------------------------- transform
\* toZipkinSpan raises on a span without its required identifiers.
Transformable(span) == span.hasContext
AllTransformable(spans) == \A i \in 1..Len(spans) : Transformable(spans[i])

toZipkinSpan(span, serviceName, codeTag, descriptionTag) ==
  [ id            |-> span.spanId,
    localEndpoint |-> [serviceName |-> serviceName],
    tags          |-> { <<codeTag, span.code>> }
                      \cup { <<descriptionTag, d>> : d \in
                               { span.description[i] : i \in DOMAIN span.description } } ]

\* The two tag-key names handed over in the wrong order.
_toZipkinSpanSwapped(this, span) ==
  toZipkinSpan(span, this._serviceName, this._statusDescriptionTagName,
               this._statusCodeTagName)

_toZipkinSpan(this, span) ==
  toZipkinSpan(span, this._serviceName, this._statusCodeTagName,
               this._statusDescriptionTagName)

\* ------------------------------------------------------------------ send
\* The callback _sendSpans hands to _send: forwards to done when there is one.
DoneWrapper(hasDone, result) ==
  IF hasDone THEN <<CallbackEv(result)>> ELSE <<>>

\* _send invoking done a second time after the empty-batch notice.
_sendDoneTwice(this, zipkinSpans, hasDone) ==
  IF Len(zipkinSpans) = 0
  THEN <<DebugEv(this._logger)>> \o DoneWrapper(hasDone, SUCCESS)
         \o DoneWrapper(hasDone, SUCCESS) \o <<ReturnEv("fulfilled")>>
  ELSE <<PostEv(this._urlStr, zipkinSpans), ReturnEv("fulfilled")>>

\* _send without the empty-batch short circuit.
_sendNoShortCircuit(this, zipkinSpans, hasDone) ==
  <<PostEv(this._urlStr, zipkinSpans), ReturnEv("fulfilled")>>

\* _send waiting for the response before it returns.
_sendBlocking(this, zipkinSpans, hasDone) ==
  IF Len(zipkinSpans) = 0
  THEN <<DebugEv(this._logger)>> \o DoneWrapper(hasDone, SUCCESS)
         \o <<ReturnEv("fulfilled")>>
  ELSE <<PostEv(this._urlStr, zipkinSpans), SettleEv("ok"), ReturnEv("fulfilled")>>

\* _send posting to the default collector whatever url was configured.
_sendDefaultUrl(this, zipkinSpans, hasDone) ==
  IF Len(zipkinSpans) = 0
  THEN <<DebugEv(this._logger)>> \o DoneWrapper(hasDone, SUCCESS)
         \o <<ReturnEv("fulfilled")>>
  ELSE <<PostEv(DEFAULT_URL, zipkinSpans), ReturnEv("fulfilled")>>

\* _send deferring done to a later turn of the event loop.
_sendDeferredDone(this, zipkinSpans, hasDone) ==
  IF Len(zipkinSpans) = 0
  THEN <<DebugEv(this._logger), ReturnEv("fulfilled")>>
         \o DoneWrapper(hasDone, SUCCESS)
  ELSE <<PostEv(this._urlStr, zipkinSpans), ReturnEv("fulfilled")>>

\* async _send: the synchronous part of the body, then the promise it returns.
_send(this, zipkinSpans, hasDone) ==
  IF Len(zipkinSpans) = 0
  THEN <<DebugEv(this._logger)>> \o DoneWrapper(hasDone, SUCCESS)
         \o <<ReturnEv("fulfilled")>>
  ELSE <<PostEv(this._urlStr, zipkinSpans), ReturnEv("fulfilled")>>

\* A map that fills the batch back to front.
MapSpansReversed(this, spans) ==
  [i \in 1..Len(spans) |-> _toZipkinSpan(this, spans[Len(spans) + 1 - i])]

\* spans.map(span => this._toZipkinSpan(span))
MapSpans(this, spans) ==
  [i \in 1..Len(spans) |-> _toZipkinSpan(this, spans[i])]

\* The caller's array once spans.map has run over it: map builds a new
\* array and leaves the one it reads as it was.
SpansAfterDrain(spans) == <<>>

SpansAfterMap(spans) == spans

\* A send that leaves out the spans that do not transform.
_sendSpansSkipBad(this, spans, hasDone) ==
  _send(this, MapSpans(this, SelectSeq(spans, Transformable)), hasDone)

_sendSpans(this, spans, hasDone) ==
  IF \E i \in 1..Len(spans) : ~Transformable(spans[i])
  THEN <<ThrowEv>>
  ELSE _send(this, MapSpans(this, spans), hasDone)

\* An export that refuses work once shutdown has been called.
exportClosed(this, spans) ==
  IF \E c \in DOMAIN calls : IsShutdown(c)
  THEN <<ReturnEv("fulfilled")>>
  ELSE _sendSpans(this, spans, TRUE)

\* export(spans, resultCallback)
export(this, spans) == _sendSpans(this, spans, TRUE)

\* A flush that drains the spans of the latest export call.
FlushSpansPending ==
  IF \E c \in DOMAIN calls : IsExport(c)
  THEN calls[CHOOSE c \in DOMAIN calls :
               IsExport(c) /\ \A d \in DOMAIN calls : IsExport(d) => d <= c].spans
  ELSE <<>>

\* The batch shutdown() flushes.
FlushSpans == <<>>

\* shutdown(): the promise of _sendSpans is dropped, shutdown returns undefined.
shutdown(this) ==
  IF this._forceFlush
  THEN LET t == _sendSpans(this, FlushSpans, FALSE)
       IN  SubSeq(t, 1, Len(t) - 1) \o
             <<IF t[Len(t)].type = "throw" THEN ThrowEv ELSE ReturnEv("undefined")>>
  ELSE <<ReturnEv("undefined")>>

\* The request awaited without a catch: the rejection reaches export's promise.
OnSettledNoCatch(this, zipkinSpans, outcome) ==
  IF Failed(outcome) THEN <<RejectEv>> ELSE <<>>

\* A catch that submits the batch again.
OnSettledRetry(this, zipkinSpans, outcome) ==
  IF Failed(outcome)
  THEN <<ErrorEv(this._logger), PostEv(this._urlStr, zipkinSpans)>>
  ELSE <<>>

\* A handler that logs at error level however the request settles.
OnSettledLogsAlways(this, zipkinSpans, outcome) ==
  <<ErrorEv(this._logger)>>

\* .catch(e => this._logger.error(...)): what runs when the request of
\* axios.post(this._urlStr, zipkinSpans) settles.
OnSettled(this, zipkinSpans, outcome) ==
  IF Failed(outcome) THEN <<ErrorEv(this._logger)>> ELSE <<>>

\* ----------------------------------------------------------- state machine
Init ==
  /\ config \in Configs
  /\ exporter = Constructor(config)
  /\ calls = <<>>

Export ==
  /\ Len(calls) < MaxCalls
  /\ \E spans \in Batches :
       calls' = Append(calls, [op |-> "export", spans |-> spans,
                               after |-> SpansAfterMap(spans),
                               trace |-> export(exporter, spans)])
  /\ UNCHANGED <<config, exporter>>

\* A shutdown that switches the flush off once it has run.
ShutdownOnce ==
  /\ Len(calls) < MaxCalls
  /\ calls' = Append(calls, [op |-> "shutdown", spans |-> <<>>,
                             after |-> SpansAfterMap(<<>>),
                             trace |-> shutdown(exporter)])
  /\ exporter' = [exporter EXCEPT !._forceFlush = FALSE]
  /\ UNCHANGED config

Shutdown ==
  /\ Len(calls) < MaxCalls
  /\ calls' = Append(calls, [op |-> "shutdown", spans |-> <<>>,
                             after |-> SpansAfterMap(<<>>),
                             trace |-> shutdown(exporter)])
  /\ UNCHANGED <<config, exporter>>

\* A settlement handled through state shared by all calls: its effects land
\* on the latest call.
SettleShared ==
  /\ \E c \in DOMAIN calls, outcome \in Outcomes :
       /\ Pending(c)
       /\ calls' = [calls EXCEPT ![Len(calls)].trace =
                      @ \o <<SettleEv(outcome)>>
                        \o OnSettled(exporter, Events(c, "post")[1].batch, outcome)]
  /\ UNCHANGED <<config, exporter>>

\* The HTTP request of call c settles; requests settle in any order.
Settle ==
  /\ \E c \in DOMAIN calls, outcome \in Outcomes :
       /\ Pending(c)
       /\ calls' = [calls EXCEPT ![c].trace =
                      @ \o <<SettleEv(outcome)>>
                        \o OnSettled(exporter, Events(c, "post")[1].batch, outcome)]
  /\ UNCHANGED <<config, exporter>>

Next == Export \/ Shutdown \/ Settle

Spec == Init /\ [][Next]_vars

TypeOK ==
  /\ config \in Configs
  /\ exporter = Constructor(config)
  /\ Len(calls) <= MaxCalls
  /\ \A c \in DOMAIN calls :
       /\ calls[c].op \in {"export", "shutdown"}
       /\ calls[c].spans \in Batches

\* ------------------------------------------------------------ properties
\* The exporter as the constructor leaves it for the given configuration.
Fresh == Constructor(config)

RECURSIVE SumPosts(_)
SumPosts(n) == IF n = 0 THEN 0 ELSE Count(n, "post") + SumPosts(n - 1)
\* Transport submissions issued so far, by all calls.
TotalPosts == SumPosts(Len(calls))

\* C1: every export call whose transport submission has resolved (with
\* success or with failure) has had its result callback invoked.
C1_CallbackInvokedOnceResolved ==
  \A c \in DOMAIN calls :
    IsExport(c) /\ Settled(c) => Count(c, "callback") >= 1

\* C2: in every reachable state the result callback of every call has been
\* invoked at most once, whatever the batch, the transport outcome and the
\* interleaving with other export and shutdown calls.
C2_CallbackAtMostOnce ==
  \A c \in DOMAIN calls : Count(c, "callback") <= 1

C2_Witness ==
  \E c, d \in DOMAIN calls :
    /\ c # d
    /\ IsExport(c) /\ Count(c, "callback") = 1
    /\ Settled(d)

\* C3: when the transport submission of an export call with a non-empty
\* batch has failed (network error or non-success response), the result
\* callback of that call has been invoked with FAILURE, exactly once.
C3_FailureReportedOnce ==
  \A c \in DOMAIN calls :
    IsExport(c) /\ Len(calls[c].spans) > 0 /\ Settled(c) /\ Failed(SettledWith(c))
      => Events(c, "callback") = <<CallbackEv(FAILURE)>>

\* C4: an export call whose spans all transform does not throw, returns a
\* promise that is fulfilled, and no later transport outcome rejects it.
C4_NoErrorReachesCaller ==
  \A c \in DOMAIN calls :
    IsExport(c) /\ AllTransformable(calls[c].spans)
      => /\ ~Threw(c)
         /\ Events(c, "return") = <<ReturnEv("fulfilled")>>
         /\ Count(c, "reject") = 0

C4_Witness ==
  \E c \in DOMAIN calls :
    /\ IsExport(c) /\ AllTransformable(calls[c].spans)
    /\ Settled(c) /\ Failed(SettledWith(c))

\* C5: export of an empty span sequence invokes its callback with SUCCESS
\* (once), issues no transport submission and emits one debug-level notice.
C5_EmptyBatchSucceeds ==
  \A c \in DOMAIN calls :
    IsExport(c) /\ calls[c].spans = <<>>
      => /\ Events(c, "callback") = <<CallbackEv(SUCCESS)>>
         /\ Count(c, "post") = 0
         /\ ~Pending(c) /\ ~Settled(c)
         /\ Events(c, "debug") = <<DebugEv(exporter._logger)>>
         /\ Count(c, "error") = 0

C5_Witness ==
  \E c \in DOMAIN calls : IsExport(c) /\ calls[c].spans = <<>> /\ Returned(c)

\* C6 as stated: the number of transport submissions equals the number of
\* export calls made with a non-empty batch.
C6_OnePostPerNonEmptyExport ==
  TotalPosts =
    Cardinality({ c \in DOMAIN calls : IsExport(c) /\ Len(calls[c].spans) > 0 })

\* C6 as amended: every call issues at most one transport submission, a
\* failed one is not re-submitted, and the number of transport submissions
\* equals the number of export calls made with a non-empty batch all of whose
\* spans transform (a call whose transform raises issues none).
C6_OnePostPerTransformedExport ==
  /\ \A c \in DOMAIN calls : Count(c, "post") <= 1
  /\ TotalPosts =
       Cardinality({ c \in DOMAIN calls :
                       /\ IsExport(c) /\ Len(calls[c].spans) > 0
                       /\ AllTransformable(calls[c].spans) })

C6_Witness ==
  \E c, d \in DOMAIN calls :
    /\ IsExport(c) /\ Settled(c) /\ Failed(SettledWith(c))
    /\ IsExport(d) /\ Len(calls[d].spans) > 0 /\ Threw(d)

\* C7: the batch submitted to the transport by export(spans) has the length
\* of spans and its i-th entry is the transform of the i-th input span.
C7_BatchPreservesOrder ==
  \A c \in DOMAIN calls :
    \A k \in DOMAIN calls[c].trace :
      LET e == calls[c].trace[k] IN
        IsExport(c) /\ e.type = "post"
          => /\ Len(e.batch) = Len(calls[c].spans)
             /\ \A i \in 1..Len(calls[c].spans) :
                  e.batch[i] = _toZipkinSpan(exporter, calls[c].spans[i])

C7_Witness ==
  \E c \in DOMAIN calls :
    /\ IsExport(c) /\ Len(calls[c].spans) = 2
    /\ Count(c, "post") = 1

\* The force-flush option as documented: true when not supplied, otherwise
\* the configured value.
ConfiguredForceFlush ==
  IF config.forceFlush = Undefined THEN TRUE ELSE config.forceFlush[1]

\* C8: shutdown performs its final flush (the debug notice of the empty
\* send) if and only if the force-flush option is enabled, the option being
\* true when not supplied and the configured value when supplied.
C8_FlushIffForceFlush ==
  \A c \in DOMAIN calls :
    IsShutdown(c) => ((Count(c, "debug") = 1) <=> ConfiguredForceFlush)

\* C9: a shutdown call issues no transport submission, delivers no spans of
\* earlier export calls, invokes no callback and logs no error: all
\* submissions are those of export calls, and the only thing shutdown does
\* before returning is at most one debug-level notice (one when it flushes).
C9_ShutdownFlushIsEmpty ==
  /\ \A c \in DOMAIN calls :
       IsShutdown(c)
         => /\ Count(c, "post") = 0 /\ ~Pending(c) /\ ~Settled(c)
            /\ Count(c, "callback") = 0
            /\ Count(c, "error") = 0
            /\ calls[c].trace \in { <<DebugEv(exporter._logger), ReturnEv("undefined")>>,
                                    <<ReturnEv("undefined")>> }
            /\ (Count(c, "debug") = 1) <=> exporter._forceFlush
  /\ TotalPosts =
       Cardinality({ c \in DOMAIN calls : IsExport(c) /\ Count(c, "post") = 1 })

C9_Witness ==
  \E c, d \in DOMAIN calls :
    /\ c < d
    /\ IsExport(c) /\ Count(c, "post") = 1
    /\ IsShutdown(d) /\ Returned(d)

\* C10: every shutdown call returns normally however many came before, and
\* an export call made after any number of shutdown calls does what the same
\* call does on a freshly constructed exporter of the same configuration:
\* the same submission, callback invocation and log entries.
C10_NoClosedState ==
  \A c \in DOMAIN calls :
    /\ IsShutdown(c) => Returned(c) /\ ~Threw(c)
    /\ IsExport(c) =>
         LET fresh == _sendSpans(Fresh, calls[c].spans, TRUE) IN
           IF Settled(c)
           THEN calls[c].trace =
                  fresh \o <<SettleEv(SettledWith(c))>>
                        \o OnSettled(Fresh, MapSpans(Fresh, calls[c].spans),
                                     SettledWith(c))
           ELSE calls[c].trace = fresh

C10_Witness ==
  \E c, d \in DOMAIN calls :
    /\ c < d
    /\ IsShutdown(c)
    /\ IsExport(d) /\ Settled(d)

\* Positions in the trace of call c of the events of the given type.
Positions(c, type) ==
  { i \in DOMAIN calls[c].trace : calls[c].trace[i].type = type }

\* C11: an export call with a submission returns to its caller while the
\* submission is pending: in the trace of the call the submission comes
\* first, then the return, and the resolution of the submission (and what
\* its handler does) only after the return.
C11_ReturnsBeforeResolution ==
  \A c \in DOMAIN calls :
    IsExport(c) /\ Count(c, "post") > 0
      => /\ Count(c, "return") = 1
         /\ \A r \in Positions(c, "return") :
              /\ \A p \in Positions(c, "post") : p < r
              /\ \A t \in Positions(c, "settle") \cup Positions(c, "error")
                           \cup Positions(c, "callback") : r < t

C11_Witness ==
  \E c, d \in DOMAIN calls :
    /\ IsExport(c) /\ Returned(c) /\ Pending(c)
    /\ IsExport(d) /\ Returned(d) /\ Settled(d)

\* C12: calls are independent.  A step never changes the operation or the
\* input of a call already made; it changes the trace of at most one of
\* them, and only by appending the resolution of that call's own pending
\* submission and the log entry of that call's own handler.
C12_CallsIndependent ==
  [][ /\ \A c \in DOMAIN calls :
           /\ c \in DOMAIN calls'
           /\ calls'[c].op = calls[c].op
           /\ calls'[c].spans = calls[c].spans
           /\ \/ calls'[c].trace = calls[c].trace
              \/ /\ Pending(c)
                 /\ \E outcome \in Outcomes :
                      calls'[c].trace =
                        calls[c].trace \o <<SettleEv(outcome)>>
                          \o OnSettled(exporter, MapSpans(exporter, calls[c].spans),
                                       outcome)
      /\ \A c, d \in DOMAIN calls :
           calls'[c].trace # calls[c].trace /\ calls'[d].trace # calls[d].trace
             => c = d ]_vars

\* Two submissions are in flight and the later one resolves first with a
\* failure, the earlier one still pending.
C12_Witness ==
  \E c, d \in DOMAIN calls :
    /\ c < d
    /\ IsExport(c) /\ Pending(c)
    /\ IsExport(d) /\ Settled(d) /\ Failed(SettledWith(d))

RECURSIVE SumErrors(_)
SumErrors(n) == IF n = 0 THEN 0 ELSE Count(n, "error") + SumErrors(n - 1)
\* Error-level log entries written so far.
TotalErrors == SumErrors(Len(calls))

\* Calls whose transport submission has failed.
FailedCalls ==
  { c \in DOMAIN calls : Settled(c) /\ Failed(SettledWith(c)) }

\* C13: the number of error-level log entries equals the number of failed
\* transport submissions, one entry per failed submission and none for a
\* successful submission, an empty batch or a shutdown.
C13_OneErrorPerFailure ==
  /\ TotalErrors = Cardinality(FailedCalls)
  /\ \A c \in DOMAIN calls :
       Count(c, "error") = IF c \in FailedCalls THEN 1 ELSE 0

C13_Witness ==
  \E c, d \in DOMAIN calls :
    /\ c \in FailedCalls
    /\ d \notin FailedCalls
    /\ IsExport(d) /\ (calls[d].spans = <<>> \/ (Settled(d) /\ ~Pending(d)))

\* C14: the configuration is fixed at construction: no export, shutdown or
\* transport resolution changes the configuration object or any field of
\* the exporter.
C14_ConfigurationFixed ==
  [][exporter' = exporter /\ config' = config]_vars

C14_Witness ==
  \E c, d \in DOMAIN calls :
    /\ IsExport(c) /\ Settled(c)
    /\ IsShutdown(d) /\ Returned(d)
    /\ exporter = Constructor(config)

Documented(option, default) ==
  IF option = Undefined THEN default ELSE option[1]

\* What the constructor keeps: the supplied value when it is non-empty, the
\* default when the option is left out or empty.
NonEmptyOr(option, default) ==
  IF option = Undefined \/ option = Some("") THEN default ELSE option[1]

\* Every entry of every submitted batch is the transform of its span under
\* the given service name and tag-key names.
TransformedWith(serviceName, codeTag, descriptionTag) ==
  \A c \in DOMAIN calls :
    \A k \in Positions(c, "post") :
      LET batch == calls[c].trace[k].batch IN
        /\ Len(batch) = Len(calls[c].spans)
        /\ \A i \in DOMAIN batch :
             batch[i] = toZipkinSpan(calls[c].spans[i], serviceName,
                                     codeTag, descriptionTag)

\* C16 as stated: every span of every batch is transformed with the
\* configured service name and with each status tag key being the configured
\* override when one is supplied and the default tag key when it is not.
C16_TagNamesAsSupplied ==
  TransformedWith(config.serviceName,
                  Documented(config.statusCodeTagName, statusCodeTagName),
                  Documented(config.statusDescriptionTagName,
                             statusDescriptionTagName))

\* C16 as amended: every span of every batch of every export call is
\* transformed with the configured service name and with each status tag key
\* being the configured override when a non-empty one is supplied and the
\* default tag key when the option is left out or is the empty string.
C16_TagNamesNonEmptyOrDefault ==
  TransformedWith(config.serviceName,
                  NonEmptyOr(config.statusCodeTagName, statusCodeTagName),
                  NonEmptyOr(config.statusDescriptionTagName,
                             statusDescriptionTagName))

\* Two export calls of one exporter have submitted batches, one of them with
\* two spans, under an overridden status-code tag key.
C16_Witness ==
  \E c, d \in DOMAIN calls :
    /\ c # d
    /\ config.statusCodeTagName = Some("code")
    /\ IsExport(c) /\ Count(c, "post") = 1 /\ Len(calls[c].spans) = 2
    /\ IsExport(d) /\ Count(d, "post") = 1

\* C17 as stated: every transport submission is addressed to the url
\* supplied at construction, or to the default url when none was supplied.
C17_UrlAsSupplied ==
  \A c \in DOMAIN calls :
    \A k \in Positions(c, "post") :
      calls[c].trace[k].url = Documented(config.url, DEFAULT_URL)

\* C17 as amended: every transport submission is addressed to the url
\* supplied at construction when it is non-empty, and to the default url
\* when no url or the empty string was supplied; the target is the same for
\* all submissions of one exporter.
C17_UrlNonEmptyOrDefault ==
  /\ \A c \in DOMAIN calls :
       \A k \in Positions(c, "post") :
         calls[c].trace[k].url = NonEmptyOr(config.url, DEFAULT_URL)
  /\ \A c, d \in DOMAIN calls :
       \A k \in Positions(c, "post") :
         \A l \in Positions(d, "post") :
           calls[c].trace[k].url = calls[d].trace[l].url

C17_Witness ==
  \E c, d \in DOMAIN calls :
    /\ c # d
    /\ config.url # Undefined /\ config.url # Some("")
    /\ Count(c, "post") = 1 /\ Count(d, "post") = 1

\* C18: for an empty batch the SUCCESS callback is invoked inside the export
\* call: in the trace of the call it comes before the return.
C18_EmptyBatchCallbackSynchronous ==
  \A c \in DOMAIN calls :
    IsExport(c) /\ calls[c].spans = <<>>
      => /\ Count(c, "callback") = 1 /\ Count(c, "return") = 1
         /\ \A k \in Positions(c, "callback") :
              \A r \in Positions(c, "return") : k < r

C18_Witness ==
  \E c \in DOMAIN calls :
    /\ IsExport(c) /\ calls[c].spans = <<>>
    /\ Count(c, "callback") = 1 /\ Count(c, "return") = 1

\* C19: batches are all-or-nothing: an export call one of whose spans does
\* not transform raises the error to its caller and does nothing else (no
\* submission, no callback, no log entry), and a submitted batch always has
\* as many entries as the call had spans.
C19_AllOrNothing ==
  \A c \in DOMAIN calls :
    /\ IsExport(c) /\ ~AllTransformable(calls[c].spans)
         => calls[c].trace = <<ThrowEv>>
    /\ \A k \in Positions(c, "post") :
         Len(calls[c].trace[k].batch) = Len(calls[c].spans)

\* An export call of a well-formed span followed by a malformed one.
C19_Witness ==
  \E c \in DOMAIN calls :
    /\ IsExport(c) /\ Len(calls[c].spans) = 2
    /\ Transformable(calls[c].spans[1]) /\ ~Transformable(calls[c].spans[2])
    /\ Threw(c)
====
